---- MODULE Spec2Model ----
(***************************************************************************)
(* Kong-Debugger (deet): the execution controller (src/src/debugger.rs),   *)
(* the Inferior with its word read-modify-write (src/src/inferior.rs) and  *)
(* the traced child it drives.  The child is a small x86-like program      *)
(* whose text the controller patches with the trap opcode 0xCC.            *)
(***************************************************************************)
EXTENDS Integers, Sequences, FiniteSets, TLC

(* ------------------------------------------------------------------ *)
(* Bytes and 64-bit words.  A u64 is kept as its eight bytes, the least *)
(* significant first: every shift of write_byte is a multiple of 8      *)
(* bits, so byte granularity is exact.                                  *)
(* ------------------------------------------------------------------ *)

\* the trap opcode int3 written by the controller
TRAP == 204

\* size_of::<usize>() on x86-64
WORD_SIZE == 8

Byte == 0..255

RECURSIVE BitAnd(_, _)
\* a & b on bytes
BitAnd(a, b) ==
    IF a = 0 \/ b = 0 THEN 0
    ELSE IF a = 255 THEN b
    ELSE IF b = 255 THEN a
    ELSE (IF a % 2 = 1 /\ b % 2 = 1 THEN 1 ELSE 0) + 2 * BitAnd(a \div 2, b \div 2)

RECURSIVE BitOr(_, _)
\* a | b on bytes
BitOr(a, b) ==
    IF a = 0 THEN b
    ELSE IF b = 0 THEN a
    ELSE (IF a % 2 = 1 \/ b % 2 = 1 THEN 1 ELSE 0) + 2 * BitOr(a \div 2, b \div 2)

\* A u64 is the tuple of its bytes << b0, ..., b7 >>, b0 the least significant.

\* (v as u64) for an 8-bit v
U64(v) == << v, 0, 0, 0, 0, 0, 0, 0 >>

\* byte j (0..7) of w shifted right by k bytes
ShrByte(w, k, j) == IF j + k <= WORD_SIZE - 1 THEN w[j + k + 1] ELSE 0

\* byte j (0..7) of w shifted left by k bytes
ShlByte(w, k, j) == IF j >= k THEN w[j - k + 1] ELSE 0

\* w >> (8 * k)
Shr8(w, k) ==
    << ShrByte(w, k, 0), ShrByte(w, k, 1), ShrByte(w, k, 2), ShrByte(w, k, 3),
       ShrByte(w, k, 4), ShrByte(w, k, 5), ShrByte(w, k, 6), ShrByte(w, k, 7) >>

\* w << (8 * k)
Shl8(w, k) ==
    << ShlByte(w, k, 0), ShlByte(w, k, 1), ShlByte(w, k, 2), ShlByte(w, k, 3),
       ShlByte(w, k, 4), ShlByte(w, k, 5), ShlByte(w, k, 6), ShlByte(w, k, 7) >>

\* a & b on u64
WAnd(a, b) ==
    << BitAnd(a[1], b[1]), BitAnd(a[2], b[2]), BitAnd(a[3], b[3]), BitAnd(a[4], b[4]),
       BitAnd(a[5], b[5]), BitAnd(a[6], b[6]), BitAnd(a[7], b[7]), BitAnd(a[8], b[8]) >>

\* a | b on u64
WOr(a, b) ==
    << BitOr(a[1], b[1]), BitOr(a[2], b[2]), BitOr(a[3], b[3]), BitOr(a[4], b[4]),
       BitOr(a[5], b[5]), BitOr(a[6], b[6]), BitOr(a[7], b[7]), BitOr(a[8], b[8]) >>

\* !a on u64
WNot(a) ==
    << 255 - a[1], 255 - a[2], 255 - a[3], 255 - a[4],
       255 - a[5], 255 - a[6], 255 - a[7], 255 - a[8] >>

\* (w as u8)
AsU8(w) == w[1]

\* align_addr_to_word: addr & -(size_of::<usize>())
align_addr_to_word(addr) == addr - (addr % WORD_SIZE)

\* mutant: the byte is taken without the shift, from the low end of the word
OrigByteNoShift(word, byte_offset) == AsU8(WAnd(word, U64(255)))

\* the orig_byte expression of write_byte: (word >> 8 * byte_offset) & 0xff
OrigByteOf(word, byte_offset) == AsU8(WAnd(Shr8(word, byte_offset), U64(255)))

\* mutant: the new byte is or-ed into the word without masking the old one out
UpdatedWordNoMask(word, byte_offset, val) ==
    WOr(word, Shl8(U64(val), byte_offset))

\* the updated_word of write_byte: mask the old byte out, or the new one in
UpdatedWord(word, byte_offset, val) ==
    LET masked_word == WAnd(word, WNot(Shl8(U64(255), byte_offset)))
    IN  WOr(masked_word, Shl8(U64(val), byte_offset))

(* ------------------------------------------------------------------ *)
(* The target binary: its text bytes, its instructions and the DWARF    *)
(* index of it.  The program is                                          *)
(*    3: int main() {                                                    *)
(*    4:   if (crash) store to address 0;                                *)
(*    5:   do f();                                                       *)
(*    6:   while (++i < LoopMax);                                        *)
(*    7: }                                                               *)
(*   10: void f() {                                                      *)
(*   11: }                                                               *)
(* started by a _start stub that has no line records.                    *)
(* ------------------------------------------------------------------ *)

\* iterations of the loop of main
LoopMax == 2

\* pushes the child's stack holds before a push faults
StackMax == 5

\* runs of one session
MaxRuns == 2

\* entries the breakpoint table may hold
MaxBps == 2

\* first and last address of the mapped text
TextLo == 16

TextHi == 39

Text == TextLo..TextHi

\* entry point: where the child is stopped by the post-exec trap
EntryAddr == 16

\* where a return through a clobbered stack slot lands: not mapped
BadAddr == 100

\* an address outside every mapping, for break *0x...
UnmappedAddr == 8

NoAddr == -1

NoLine == -1

NoFunc == "?"

\* the bytes of the text segment, TextLo first
TextBytes ==
    << 232, 2,  15, 5,  85,  137, 229,  136, 16,  232, 4,  124, 252,  93,  195,
       85,  137, 229,  144, 93,  195,  144, 144, 144 >>

OrigMem == [a \in Text |-> TextBytes[a - TextLo + 1]]

\* the instructions: address |-> kind, length, branch target
Instrs ==
    [ a \in {16, 18, 20, 21, 23, 25, 27, 29, 30, 31, 32, 34, 35, 36, 37, 38, 39} |->
        CASE a = 16 -> [kind |-> "call",  len |-> 2, target |-> 20]
          [] a = 18 -> [kind |-> "exit",  len |-> 2, target |-> NoAddr]
          [] a = 20 -> [kind |-> "push",  len |-> 1, target |-> NoAddr]
          [] a = 21 -> [kind |-> "movbp", len |-> 2, target |-> NoAddr]
          [] a = 23 -> [kind |-> "store", len |-> 2, target |-> NoAddr]
          [] a = 25 -> [kind |-> "call",  len |-> 2, target |-> 31]
          [] a = 27 -> [kind |-> "loop",  len |-> 2, target |-> 25]
          [] a = 29 -> [kind |-> "pop",   len |-> 1, target |-> NoAddr]
          [] a = 30 -> [kind |-> "ret",   len |-> 1, target |-> NoAddr]
          [] a = 31 -> [kind |-> "push",  len |-> 1, target |-> NoAddr]
          [] a = 32 -> [kind |-> "movbp", len |-> 2, target |-> NoAddr]
          [] a = 34 -> [kind |-> "nop",   len |-> 1, target |-> NoAddr]
          [] a = 35 -> [kind |-> "pop",   len |-> 1, target |-> NoAddr]
          [] a = 36 -> [kind |-> "ret",   len |-> 1, target |-> NoAddr]
          [] OTHER  -> [kind |-> "nop",   len |-> 1, target |-> NoAddr] ]

InstrStarts == DOMAIN Instrs

\* the instruction whose bytes hold address a
InstrAt(a) == CHOOSE s \in InstrStarts : s <= a /\ a < s + Instrs[s].len

\* the first instruction boundary after a
NextBoundary(a) == LET s == InstrAt(a) IN s + Instrs[s].len

\* DwarfData::get_line_from_addr(addr).map(|l| l.number)
get_line_from_addr(addr) ==
    CASE addr \in 20..22 -> 3
      [] addr \in 23..24 -> 4
      [] addr \in 25..26 -> 5
      [] addr \in 27..28 -> 6
      [] addr \in 29..30 -> 7
      [] addr \in 31..33 -> 10
      [] addr \in 34..36 -> 11
      [] OTHER           -> NoLine

\* DwarfData::get_function_from_addr
get_function_from_addr(addr) ==
    CASE addr \in 20..30 -> "main"
      [] addr \in 31..36 -> "f"
      [] OTHER           -> NoFunc

\* DwarfData::get_addr_for_line(None, line)
get_addr_for_line(line) ==
    CASE line = 3  -> 20
      [] line = 4  -> 23
      [] line = 5  -> 25
      [] line = 6  -> 27
      [] line = 7  -> 29
      [] line = 10 -> 31
      [] line = 11 -> 34
      [] OTHER     -> NoAddr

\* DwarfData::get_addr_for_function(None, name)
get_addr_for_function(name) ==
    CASE name = "main" -> 20
      [] name = "f"    -> 31
      [] OTHER         -> NoAddr

(* ------------------------------------------------------------------ *)
(* State.                                                                *)
(* ------------------------------------------------------------------ *)

VARIABLES
    pc,                   \* where Debugger::run is: at the prompt, or inside a command
    cmd,                  \* the command being executed, or the last one executed
    inferior,             \* Debugger.inferior: 0 for None, else the child's pid
    break_point,          \* Debugger.break_point: addr |-> orig_byte
    procs,                \* every pid the session spawned |-> its kernel state
    child,                \* registers, stack and data of the inferior's child
    mem,                  \* the text bytes of the inferior's child
    current_line_number,  \* the local of the Next handler
    planted,              \* addresses where a write of 0xCC succeeded in this inferior
    out,                  \* the last report printed by a command
    wstatus,              \* the Status the command's latest wait returned
    over,                 \* continue: the trap it stepped over, if the child had hit it
    passed,               \* table addresses whose instruction a resumed child ran through
    unwaited,             \* addresses the command called write_byte on before any
                          \* wait had shown the inferior's child stopped
    wb,                   \* inputs and results of the write_byte and Print harnesses
    rs                    \* the resolver: CACHE_INIT, CACHE_PTR, the mutex, the map
                          \* and where each caller of parse_with_fallback is

vars == << pc, cmd, inferior, break_point, procs, child, mem,
           current_line_number, planted, out, wstatus, over, passed, unwaited, wb, rs >>

Pids == 1..MaxRuns

\* the registers of a child stopped by the post-exec trap
FreshChild(crash) ==
    [rip |-> EntryAddr, rbp |-> 0, stack |-> << >>, cnt |-> 0,
     crash |-> crash, sig |-> "SIGTRAP", hit |-> NoAddr]

NoStatus == [kind |-> "none", sig |-> "", rip |-> NoAddr]

\* what a command printed: kind is "none", "stopped" (print_stopped_info),
\* "exited", "signaled", "killing", "nostart", "setbp", "unable", "noinferior",
\* "error" or "panic"; from tells which arm of a handler printed it
Report(kind, rip, index) ==
    [kind  |-> kind, rip |-> rip, index |-> index,
     line  |-> IF kind = "stopped" THEN get_line_from_addr(rip) ELSE NoLine,
     func  |-> IF kind = "stopped" THEN get_function_from_addr(rip) ELSE NoFunc,
     from  |-> "", frames |-> << >>, value |-> U64(0)]

NoOut == Report("none", NoAddr, 0)

NoWb == [phase |-> 0, addr |-> 0, val |-> 0, ret |-> 0, mem0 |-> OrigMem]

\* the threads that may call parse_with_fallback
Callers == {1, 2}

\* Option::None for a BreakpointSpec
NoSpec == [tag |-> "None", line |-> 0, name |-> "", addr |-> 0]

\* a caller that is not inside parse_with_fallback.  pc is where the caller
\* is, text the natural_text of its call, spec the local `spec`, res what
\* the call returned; hit, offline and remote tell whether the call found
\* its text in the cache, ran try_simple_parse, ran parse_natural_breakpoint;
\* ptext and pres are text and res of the caller's previous call
NoCall(pc_) ==
    [pc |-> pc_, text |-> << >>, spec |-> NoSpec,
     res |-> [kind |-> "none", spec |-> NoSpec],
     hit |-> FALSE, offline |-> FALSE, remote |-> FALSE, calls |-> 0,
     ptext |-> << >>, pres |-> [kind |-> "none", spec |-> NoSpec]]

\* The resolver before its first call: CACHE_INIT is new, CACHE_PTR is
\* null, no cache exists.  inits counts the runs of the closure of
\* call_once, lock is the caller that holds the mutex (0: free), acc the
\* callers that are reading or writing the map, config whether a resolver
\* config file exists, texts the texts the callers may pass.
NoRs ==
    [once |-> "new", inits |-> 0, ptr |-> "null", deref |-> "none", lock |-> 0,
     acc |-> {}, map |-> [x \in {} |-> NoSpec], config |-> FALSE, texts |-> {},
     th |-> [t \in Callers |-> NoCall("off")]]

Init ==
    /\ pc = "prompt"
    /\ cmd = "none"
    /\ inferior = 0
    /\ break_point = [a \in {} |-> 0]
    /\ procs = [p \in Pids |-> "unborn"]
    /\ child = FreshChild(FALSE)
    /\ mem = OrigMem
    /\ current_line_number = NoLine
    /\ planted = {}
    /\ out = NoOut
    /\ wstatus = NoStatus
    /\ over = NoAddr
    /\ passed = {}
    /\ unwaited = {}
    /\ wb = NoWb
    /\ rs = NoRs

(* ------------------------------------------------------------------ *)
(* The child: one instruction of the CPU.                                *)
(* ------------------------------------------------------------------ *)

Front(s) == SubSeq(s, 1, Len(s) - 1)

Last(s) == s[Len(s)]

\* the instruction at c.rip, its bytes intact, executed
Exec(c) ==
    LET ins  == Instrs[c.rip]
        next == c.rip + ins.len
    IN  CASE ins.kind = "call" ->
               IF Len(c.stack) >= StackMax
               THEN [c |-> c, ev |-> "segv"]
               ELSE [c |-> [c EXCEPT !.stack = Append(@, next), !.rip = ins.target],
                     ev |-> "ok"]
          [] ins.kind = "push" ->
               IF Len(c.stack) >= StackMax
               THEN [c |-> c, ev |-> "segv"]
               ELSE [c |-> [c EXCEPT !.stack = Append(@, c.rbp), !.rip = next],
                     ev |-> "ok"]
          [] ins.kind = "movbp" ->
               [c |-> [c EXCEPT !.rbp = Len(c.stack), !.rip = next], ev |-> "ok"]
          [] ins.kind = "pop" ->
               IF c.stack = << >>
               THEN [c |-> [c EXCEPT !.rbp = 0, !.rip = next], ev |-> "ok"]
               ELSE [c |-> [c EXCEPT !.rbp = Last(c.stack), !.stack = Front(@),
                                     !.rip = next],
                     ev |-> "ok"]
          [] ins.kind = "ret" ->
               IF c.stack = << >>
               THEN [c |-> [c EXCEPT !.rip = BadAddr], ev |-> "ok"]
               ELSE [c |-> [c EXCEPT !.stack = Front(@),
                                     !.rip = IF Last(c.stack) \in Text
                                             THEN Last(c.stack) ELSE BadAddr],
                     ev |-> "ok"]
          [] ins.kind = "loop" ->
               [c |-> [c EXCEPT !.cnt = @ + 1,
                                !.rip = IF c.cnt + 1 < LoopMax THEN ins.target ELSE next],
                ev |-> "ok"]
          [] ins.kind = "store" ->
               IF c.crash
               THEN [c |-> c, ev |-> "segv"]
               ELSE [c |-> [c EXCEPT !.rip = next], ev |-> "ok"]
          [] ins.kind = "exit" -> [c |-> c, ev |-> "exit"]
          [] OTHER -> [c |-> [c EXCEPT !.rip = next], ev |-> "ok"]

\* the bytes at c.rip are those of the instruction that starts there
Intact(c, m) ==
    /\ c.rip \in InstrStarts
    /\ \A k \in 0..(Instrs[c.rip].len - 1) :
          c.rip + k \in Text /\ m[c.rip + k] = OrigMem[c.rip + k]

\* The outcomes of the CPU executing at c.rip on memory m.  ev is "ok" (an
\* instruction retired), "trap" (int3 executed: rip is one past it), "segv"
\* (a fault: rip stays) or "exit".  Bytes that are not the program's
\* instruction decode to something the program never meant: it faults or
\* it retires harmlessly up to the next boundary.
CpuStep(c, m) ==
    IF c.rip \notin Text THEN {[c |-> c, ev |-> "segv"]}
    ELSE IF m[c.rip] = TRAP THEN {[c |-> [c EXCEPT !.rip = @ + 1], ev |-> "trap"]}
    ELSE IF Intact(c, m) THEN {Exec(c)}
    ELSE {[c |-> c, ev |-> "segv"],
          [c |-> [c EXCEPT !.rip = NextBoundary(c.rip)], ev |-> "ok"]}

(* ------------------------------------------------------------------ *)
(* Inferior (src/src/inferior.rs).                                       *)
(* ------------------------------------------------------------------ *)

\* ptrace::read of the aligned word
ReadWord(m, aligned_addr) ==
    << m[aligned_addr], m[aligned_addr + 1], m[aligned_addr + 2], m[aligned_addr + 3],
       m[aligned_addr + 4], m[aligned_addr + 5], m[aligned_addr + 6], m[aligned_addr + 7] >>

\* ptrace::write of the aligned word
WriteWord(m, aligned_addr, w) ==
    [m EXCEPT ![aligned_addr] = w[1], ![aligned_addr + 1] = w[2],
              ![aligned_addr + 2] = w[3], ![aligned_addr + 3] = w[4],
              ![aligned_addr + 4] = w[5], ![aligned_addr + 5] = w[6],
              ![aligned_addr + 6] = w[7], ![aligned_addr + 7] = w[8]]

\* Inferior::write_byte on memory m.  ptrace::read fails when the child is
\* not in a trace stop (readable = FALSE) or the word is not mapped.
write_byte(m, readable, addr, val) ==
    LET aligned_addr == align_addr_to_word(addr)
        byte_offset  == addr - aligned_addr
    IN  IF ~readable \/ aligned_addr \notin Text
        THEN [ok |-> FALSE, orig |-> 0, mem |-> m]
        ELSE LET word == ReadWord(m, aligned_addr)
             IN  [ok   |-> TRUE,
                  orig |-> OrigByteOf(word, byte_offset),
                  mem  |-> WriteWord(m, aligned_addr,
                                     UpdatedWord(word, byte_offset, val))]

\* What a resumed child does next: the CPU runs at its rip, or a SIGKILL
\* sent from outside the session ends it (ev = "kill").
Resumed(c, m) == CpuStep(c, m) \cup {[c |-> c, ev |-> "kill"]}

\* the statuses after which the child is no more
Dead == {"Exited", "Signaled"}

\* mutant: wait translates every status as a stop
waitAllStopped(c, ps) == [kind |-> "Stopped", sig |-> c.sig, rip |-> c.rip]

\* Inferior::wait on a child the kernel has stopped (ps = "stopped") or
\* ended (ps = "zombie"): WaitStatus translated to Status, rip read on a
\* stop.  ps = "lost" is a child that waitpid reported stopped and that is
\* gone when getregs is called: the `?` returns the Err.
wait(c, ps) ==
    CASE ps = "zombie" ->
           IF c.sig = "SIGKILL"
           THEN [kind |-> "Signaled", sig |-> "SIGKILL", rip |-> NoAddr]
           ELSE [kind |-> "Exited", sig |-> "", rip |-> NoAddr]
      [] ps = "lost" -> [kind |-> "Err", sig |-> "ESRCH", rip |-> NoAddr]
      [] OTHER -> [kind |-> "Stopped", sig |-> c.sig, rip |-> c.rip]

\* What Inferior::wait can meet for a child in kernel state ps: a stopped
\* child may be ended by a SIGKILL from outside the session between the
\* waitpid and the getregs of wait.
WaitSees(ps) == IF ps = "stopped" THEN {"stopped", "lost"} ELSE {ps}

\* the kernel state of a child after event ev
ProcAfter(ev) == IF ev \in {"exit", "kill"} THEN "zombie" ELSE "stopped"

\* the registers of a child stopped or ended by event ev; sig is the signal
\* the kernel reports, hit the address of the int3 whose execution stopped it
Landed(c, ev) ==
    [c EXCEPT !.sig = CASE ev = "segv" -> "SIGSEGV"
                        [] ev = "kill" -> "SIGKILL"
                        [] ev = "exit" -> ""
                        [] OTHER       -> "SIGTRAP",
              !.hit = IF ev = "trap" THEN c.rip - 1 ELSE NoAddr]

\* Inferior::step: PTRACE_SINGLESTEP, then wait.  One instruction runs.
step(c, m) ==
    UNION { { [c |-> Landed(o.c, o.ev), status |-> wait(Landed(o.c, o.ev), ps)] :
                ps \in WaitSees(ProcAfter(o.ev)) } :
            o \in Resumed(c, m) }

\* the states of a pid whose exit status a wait has collected; "rekilled"
\* is one that was sent a SIGKILL after that
Reaped == {"reaped", "rekilled"}

\* mutant: kill leaves the child alive
KillNoop(ps, pid) == ps

\* Inferior::kill: self.child.kill() sends SIGKILL to the pid (the Child
\* was never waited on through std, so it does not know of a status that
\* waitpid collected), then wait once to reap.  On a pid that was reaped
\* the signal goes to a pid that is no longer the child's.
kill(ps, pid) == [ps EXCEPT ![pid] = IF ps[pid] \in Reaped THEN "rekilled" ELSE "reaped"]

\* mutant: dropping an Inferior leaves its child alone
DropNoop(ps, pid) == ps

\* Drop for Inferior: kill, its error ignored
Drop(ps, pid) == IF pid = 0 THEN ps ELSE kill(ps, pid)

RECURSIVE PlantLoop(_, _, _, _)
\* The loop of Inferior::new over breakpoints.iter_mut(): the entries in
\* `ready` are written after the child reached its post-exec stop, the
\* others before, where ptrace::read fails and the entry is left as it was.
PlantLoop(todo, ready, bp, m) ==
    IF todo = {} THEN [bp |-> bp, mem |-> m, ok |-> {}]
    ELSE LET addr == CHOOSE a \in todo : TRUE
             r    == write_byte(m, addr \in ready, addr, TRAP)
             rest == PlantLoop(todo \ {addr}, ready,
                               IF r.ok THEN [bp EXCEPT ![addr] = r.orig] ELSE bp,
                               r.mem)
         IN  [rest EXCEPT !.ok = @ \cup (IF r.ok THEN {addr} ELSE {})]

(* ------------------------------------------------------------------ *)
(* Debugger::run (src/src/debugger.rs): one action per command, split    *)
(* where the handler blocks in a wait on a resumed child or goes round   *)
(* the loop of next.                                                     *)
(* ------------------------------------------------------------------ *)

\* the registers, text and planted traps of a child that is gone: its address
\* space does not exist any more
Gone ==
    /\ child' = FreshChild(FALSE)
    /\ mem' = OrigMem
    /\ planted' = {}

\* mutant: an entry that exists is kept (the entry().or_insert() of a map)
InsertKeep(bp, addr, orig_byte) ==
    [a \in (DOMAIN bp) \cup {addr} |-> IF a \in DOMAIN bp THEN bp[a] ELSE orig_byte]

\* HashMap::insert
Insert(bp, addr, orig_byte) ==
    [a \in (DOMAIN bp) \cup {addr} |-> IF a = addr THEN orig_byte ELSE bp[a]]

\* the pid the next spawn gets
NextPid == CHOOSE p \in Pids : procs[p] = "unborn" /\ \A q \in Pids : q < p => procs[q] # "unborn"

\* mutant: the Exited and Signaled arms leave self.inferior as it was
SlotKept(status, pid) == pid

\* self.inferior after a match on a wait's status: None in the Exited and
\* Signaled arms, untouched in the others
SlotAfter(status, pid) == IF status.kind \in Dead THEN 0 ELSE pid

\* the println! of the Exited and of the Signaled arm
ExitReport(status) ==
    Report(IF status.kind = "Signaled" THEN "signaled" ELSE "exited", NoAddr, 0)

\* A panic of the controller (an .unwrap() on an Err or a None): the stack
\* unwinds, the Debugger is dropped and with it its Inferior, whose Drop
\* kills the child.
Panic(cause) ==
    /\ pc' = "panicked"
    /\ procs' = Drop(procs, inferior)
    /\ inferior' = 0
    /\ out' = [Report("panic", NoAddr, 0) EXCEPT !.from = cause]
    /\ Gone

\* the `Err(e) => println!` arm of a match on continue_run or step: the
\* child that wait lost is dead and not reaped, self.inferior is untouched
WaitFailed ==
    /\ out' = Report("error", NoAddr, 0)
    /\ procs' = [procs EXCEPT ![inferior] = "zombie"]
    /\ pc' = "prompt"
    /\ Gone

\* mutant: the wait returns while the child still runs
WaitReturnsAtOnce(ps) == TRUE

\* waitpid(pid, None) blocks until the child has stopped or ended
WaitReturns(ps) == ps \in {"stopped", "zombie"}

\* the arms of `match ...continue_run(None)` shared by Run and Continue
AfterContinueRun ==
    /\ inferior # 0
    /\ WaitReturns(procs[inferior])
    /\ \E ps \in WaitSees(procs[inferior]) :
          LET status == wait(child, ps)
              reaped == IF procs[inferior] = "zombie"
                        THEN [procs EXCEPT ![inferior] = "reaped"] ELSE procs
          IN  /\ wstatus' = status
              /\ inferior' = SlotAfter(status, inferior)
              /\ CASE status.kind \in Dead ->
                        /\ out' = ExitReport(status)
                        /\ procs' = IF inferior' = 0 THEN Drop(reaped, inferior) ELSE reaped
                        /\ pc' = "prompt"
                        /\ Gone
                   [] status.kind = "Err" -> WaitFailed
                   [] OTHER ->
                        /\ out' = Report("stopped", status.rip, 0)
                        /\ procs' = reaped
                        /\ pc' = "prompt"
                        /\ UNCHANGED << child, mem, planted >>
    /\ UNCHANGED << cmd, break_point, current_line_number, over, passed, unwaited, wb, rs >>

\* what Inferior::new can meet: the child is spawned and its first wait
\* returns the post-exec SIGTRAP stop ("ok"), Command::spawn returns an Err
\* ("fail"), or the first wait returns anything else ("nostop")
SpawnOutcomes == {"ok", "fail", "nostop"}

\* DebuggerCommand::Run up to the wait of continue_run: kill the old
\* inferior, Inferior::new (spawn, plant, wait for the post-exec trap),
\* PTRACE_CONT.
Run(crash, ready, spawn) ==
    /\ pc = "prompt"
    /\ \E p \in Pids : procs[p] = "unborn"
    /\ cmd' = "run"
    /\ over' = NoAddr
    /\ passed' = {}
    /\ current_line_number' = NoLine
    /\ UNCHANGED << wb, rs >>
    /\ LET ps == IF inferior # 0 THEN Drop(kill(procs, inferior), inferior) ELSE procs
           pl == PlantLoop(DOMAIN break_point, ready, break_point, OrigMem)
       IN  CASE spawn = "fail" ->
                  \* cmd.args(args).spawn().ok().unwrap() on the None
                  /\ pc' = "panicked"
                  /\ procs' = ps
                  /\ inferior' = 0
                  /\ out' = [Report("panic", NoAddr, 0) EXCEPT !.from = "spawn"]
                  /\ wstatus' = NoStatus
                  /\ unwaited' = {}
                  /\ Gone
                  /\ UNCHANGED break_point
             [] spawn = "nostop" ->
                  \* Inferior::new returns None: the Inferior it built is
                  \* dropped, "Error starting subprocess"
                  /\ UNCHANGED pc
                  /\ procs' = Drop([ps EXCEPT ![NextPid] = "zombie"], NextPid)
                  /\ inferior' = 0
                  /\ break_point' = pl.bp
                  /\ out' = Report("nostart", NoAddr, 0)
                  /\ wstatus' = [kind |-> "NoTrap", sig |-> "", rip |-> NoAddr]
                  /\ unwaited' = DOMAIN break_point
                  /\ Gone
             [] OTHER ->
                  /\ pc' = "run_wait"
                  /\ procs' = [ps EXCEPT ![NextPid] = "running"]
                  /\ inferior' = NextPid
                  /\ break_point' = pl.bp
                  /\ mem' = pl.mem
                  /\ planted' = pl.ok
                  /\ child' = FreshChild(crash)
                  /\ out' = IF inferior # 0 THEN Report("killing", NoAddr, 0) ELSE NoOut
                  /\ wstatus' = [kind |-> "Stopped", sig |-> "SIGTRAP", rip |-> EntryAddr]
                  /\ unwaited' = DOMAIN break_point

\* the resumed child runs one instruction
InferiorStep ==
    /\ pc \in {"run_wait", "cont_wait"}
    /\ inferior # 0
    /\ procs[inferior] = "running"
    /\ \E o \in Resumed(child, mem) :
          /\ child' = IF o.ev = "ok" THEN o.c ELSE Landed(o.c, o.ev)
          /\ procs' = [procs EXCEPT ![inferior] =
                          IF o.ev = "ok" THEN "running" ELSE ProcAfter(o.ev)]
          /\ passed' = IF o.ev = "ok" /\ child.rip \in DOMAIN break_point
                       THEN passed \cup {child.rip} ELSE passed
    /\ UNCHANGED << pc, cmd, inferior, break_point, mem, current_line_number,
                    planted, out, wstatus, over, unwaited, wb, rs >>

\* DebuggerCommand::Run: the match on continue_run's result
RunWaitReturn ==
    /\ pc = "run_wait"
    /\ AfterContinueRun

\* DebuggerCommand::Continue: getregs, step over the breakpoint at rip - 1
\* if the table has one, then PTRACE_CONT
Continue ==
    /\ pc = "prompt"
    /\ cmd' = "continue"
    /\ passed' = {}
    /\ current_line_number' = NoLine
    /\ unwaited' = {}
    /\ UNCHANGED << break_point, wb, rs >>
    /\ IF inferior = 0
       THEN /\ out' = Report("noinferior", NoAddr, 0)
            /\ wstatus' = NoStatus
            /\ over' = NoAddr
            /\ UNCHANGED << pc, inferior, procs, child, mem, planted >>
       ELSE IF procs[inferior] # "stopped"
       THEN \* ptrace::getregs(..).unwrap() on ESRCH
            /\ Panic("getregs")
            /\ wstatus' = NoStatus
            /\ over' = NoAddr
       ELSE LET bp_addr == child.rip - 1
            IN  IF bp_addr \notin DOMAIN break_point
                THEN /\ procs' = [procs EXCEPT ![inferior] = "running"]
                     /\ pc' = "cont_wait"
                     /\ out' = NoOut
                     /\ wstatus' = NoStatus
                     /\ over' = NoAddr
                     /\ UNCHANGED << inferior, child, mem, planted >>
                ELSE LET w1 == write_byte(mem, TRUE, bp_addr, break_point[bp_addr])
                     IN  /\ over' = IF child.hit = bp_addr THEN bp_addr ELSE NoAddr
                         /\ IF ~w1.ok
                            THEN \* inferior.write_byte(..).unwrap() on the Err
                                 /\ Panic("write_byte")
                                 /\ wstatus' = NoStatus
                            ELSE \E s \in step([child EXCEPT !.rip = bp_addr], w1.mem) :
                                 /\ wstatus' = s.status
                                 /\ inferior' = SlotAfter(s.status, inferior)
                                 /\ CASE s.status.kind \in Dead ->
                                           /\ out' = ExitReport(s.status)
                                           /\ procs' = LET reaped == [procs EXCEPT ![inferior] = "reaped"]
                                                       IN  IF inferior' = 0 THEN Drop(reaped, inferior)
                                                           ELSE reaped
                                           /\ pc' = "prompt"
                                           /\ Gone
                                      [] s.status.kind = "Err" -> WaitFailed
                                      [] s.status.kind = "Stopped" /\ s.status.sig = "SIGTRAP" ->
                                           /\ mem' = write_byte(w1.mem, TRUE, bp_addr, TRAP).mem
                                           /\ child' = s.c
                                           /\ procs' = [procs EXCEPT ![inferior] = "running"]
                                           /\ pc' = "cont_wait"
                                           /\ out' = NoOut
                                           /\ UNCHANGED planted
                                      [] OTHER ->
                                           /\ mem' = w1.mem
                                           /\ child' = s.c
                                           /\ procs' = [procs EXCEPT ![inferior] = "running"]
                                           /\ pc' = "cont_wait"
                                           /\ out' = NoOut
                                           /\ UNCHANGED planted

\* DebuggerCommand::Continue: the match on continue_run's result
ContinueWaitReturn ==
    /\ pc = "cont_wait"
    /\ AfterContinueRun

\* DebuggerCommand::Next before its loop: getregs and the line of the
\* current rip
NextCmd ==
    /\ pc = "prompt"
    /\ cmd' = "next"
    /\ wstatus' = NoStatus
    /\ over' = NoAddr
    /\ passed' = {}
    /\ unwaited' = {}
    /\ UNCHANGED << break_point, wb, rs >>
    /\ IF inferior = 0
       THEN /\ out' = Report("noinferior", NoAddr, 0)
            /\ current_line_number' = NoLine
            /\ UNCHANGED << pc, inferior, procs, child, mem, planted >>
       ELSE IF procs[inferior] # "stopped"
       THEN \* ptrace::getregs(..).unwrap() on ESRCH
            /\ Panic("getregs")
            /\ current_line_number' = NoLine
       ELSE /\ current_line_number' = get_line_from_addr(child.rip)
            /\ out' = NoOut
            /\ pc' = "next_loop"
            /\ UNCHANGED << inferior, procs, child, mem, planted >>

\* mutant: the step of next stops on any change of line, mapped or not
StopsHereAnyLine(new_line_number, line_number) == new_line_number # line_number

\* the test that ends the loop of next after a plain single-step
StopsHere(new_line_number, line_number) ==
    new_line_number # line_number /\ new_line_number # NoLine

\* DebuggerCommand::Next: one turn of its loop
NextIter ==
    /\ pc = "next_loop"
    /\ UNCHANGED << cmd, break_point, current_line_number, over, passed, unwaited, wb, rs >>
    /\ LET bp_addr == child.rip - 1
       IN  IF bp_addr \in DOMAIN break_point
           THEN \E w1 \in {write_byte(mem, TRUE, bp_addr, break_point[bp_addr])} :
                    IF ~w1.ok
                    THEN \* inferior.write_byte(..).unwrap() on the Err
                         /\ Panic("write_byte")
                         /\ UNCHANGED wstatus
                    ELSE \E s \in step([child EXCEPT !.rip = bp_addr], w1.mem) :
                         /\ wstatus' = s.status
                         /\ inferior' = SlotAfter(s.status, inferior)
                         /\ CASE s.status.kind \in Dead ->
                                   /\ out' = ExitReport(s.status)
                                   /\ procs' = LET reaped == [procs EXCEPT ![inferior] = "reaped"]
                                               IN  IF inferior' = 0 THEN Drop(reaped, inferior)
                                                   ELSE reaped
                                   /\ pc' = "prompt"
                                   /\ Gone
                              [] s.status.kind = "Err" -> WaitFailed
                              [] s.status.kind = "Stopped" /\ s.status.sig = "SIGTRAP" ->
                                   /\ mem' = write_byte(w1.mem, TRUE, bp_addr, TRAP).mem
                                   /\ child' = s.c
                                   /\ UNCHANGED << pc, out, procs, planted >>
                              [] OTHER ->
                                   /\ out' = [Report("stopped", s.status.rip, 0)
                                                EXCEPT !.from = "stepover"]
                                   /\ pc' = "prompt"
                                   /\ mem' = w1.mem
                                   /\ child' = s.c
                                   /\ UNCHANGED << procs, planted >>
           ELSE \E s \in step(child, mem) :
                /\ wstatus' = s.status
                /\ inferior' = SlotAfter(s.status, inferior)
                /\ CASE s.status.kind \in Dead ->
                          /\ out' = ExitReport(s.status)
                          /\ procs' = LET reaped == [procs EXCEPT ![inferior] = "reaped"]
                                      IN  IF inferior' = 0 THEN Drop(reaped, inferior)
                                          ELSE reaped
                          /\ pc' = "prompt"
                          /\ Gone
                     [] s.status.kind = "Err" -> WaitFailed
                     [] OTHER ->
                          /\ child' = s.c
                          /\ UNCHANGED << mem, planted, procs >>
                          /\ IF StopsHere(get_line_from_addr(s.status.rip), current_line_number)
                             THEN /\ out' = [Report("stopped", s.status.rip, 0)
                                               EXCEPT !.from = "step"]
                                  /\ pc' = "prompt"
                             ELSE UNCHANGED << pc, out >>

\* what the user may give to break: *0xHEX, a decimal line, a function name
BreakArgs ==
    { [form |-> "raw",  addr |-> UnmappedAddr, line |-> 0, name |-> ""],
      [form |-> "line", addr |-> 0, line |-> 5,  name |-> ""],
      [form |-> "line", addr |-> 0, line |-> 4,  name |-> ""],
      [form |-> "line", addr |-> 0, line |-> 99, name |-> ""],
      [form |-> "func", addr |-> 0, line |-> 0,  name |-> "main"],
      [form |-> "func", addr |-> 0, line |-> 0,  name |-> "nosuch"] }

\* the address a break argument resolves to
ResolveBreak(args) ==
    CASE args.form = "raw"  -> args.addr
      [] args.form = "line" -> get_addr_for_line(args.line)
      [] OTHER              -> get_addr_for_function(args.name)

\* the `if let Some(addr) = addr` arm of Break and of NaturalBreak: insert
\* with orig_byte 0, echo the index, and with a live inferior write 0xCC and
\* insert again with the byte write_byte returned
Place(addr) ==
    LET bp0 == Insert(break_point, addr, 0)
        w   == write_byte(mem, inferior # 0 /\ procs[inferior] = "stopped", addr, TRAP)
    IN  IF inferior = 0
           THEN /\ break_point' = bp0
                /\ out' = Report("setbp", addr, Cardinality(DOMAIN bp0) - 1)
                /\ UNCHANGED << mem, planted >>
           ELSE IF w.ok
                THEN /\ break_point' = Insert(bp0, addr, w.orig)
                     /\ mem' = w.mem
                     /\ planted' = planted \cup {addr}
                     /\ out' = Report("setbp", addr, Cardinality(DOMAIN bp0) - 1)
                ELSE /\ break_point' = bp0
                     /\ out' = Report("error", addr, Cardinality(DOMAIN bp0) - 1)
                     /\ UNCHANGED << mem, planted >>

\* mutant: the else arm enters the unresolved argument in the table as
\* address 0
UnableInserts ==
    /\ out' = Report("unable", NoAddr, 0)
    /\ break_point' = Insert(break_point, 0, 0)
    /\ UNCHANGED << mem, planted >>

\* the else arm of `if let Some(addr) = addr` in Break and NaturalBreak, and
\* the Err arm of NaturalBreak: a println! and nothing else
Unable ==
    /\ out' = Report("unable", NoAddr, 0)
    /\ UNCHANGED << break_point, mem, planted >>

\* DebuggerCommand::Break
Break(args) ==
    /\ pc = "prompt"
    /\ cmd' = "break"
    /\ LET addr == ResolveBreak(args)
       IN  IF addr # NoAddr
           THEN /\ addr \in DOMAIN break_point \/ Cardinality(DOMAIN break_point) < MaxBps
                /\ Place(addr)
           ELSE Unable
    /\ wstatus' = NoStatus
    /\ over' = NoAddr
    /\ passed' = {}
    /\ current_line_number' = NoLine
    /\ unwaited' = {}
    /\ UNCHANGED << pc, inferior, procs, child, wb, rs >>

\* what the resolver may return for nb: a BreakpointSpec, or an error
NbResults ==
    { [tag |-> "Line", line |-> 5, name |-> "", addr |-> 0],
      [tag |-> "Address", line |-> 0, name |-> "", addr |-> 23],
      [tag |-> "Function", line |-> 0, name |-> "nosuch", addr |-> 0],
      [tag |-> "Err", line |-> 0, name |-> "", addr |-> 0] }

\* the address NaturalBreak maps the resolver's answer to: the match on the
\* BreakpointSpec, and no address when the resolver returned an Err
ResolveSpec(res) ==
    CASE res.tag = "Line"     -> get_addr_for_line(res.line)
      [] res.tag = "Function" -> get_addr_for_function(res.name)
      [] res.tag = "Address"  -> res.addr
      [] OTHER                -> NoAddr

\* DebuggerCommand::NaturalBreak, given the resolver's answer
NaturalBreak(res) ==
    /\ pc = "prompt"
    /\ cmd' = "nb"
    /\ LET addr == ResolveSpec(res)
       IN  IF addr # NoAddr
           THEN /\ addr \in DOMAIN break_point \/ Cardinality(DOMAIN break_point) < MaxBps
                /\ Place(addr)
           ELSE Unable
    /\ wstatus' = NoStatus
    /\ over' = NoAddr
    /\ passed' = {}
    /\ current_line_number' = NoLine
    /\ unwaited' = {}
    /\ UNCHANGED << pc, inferior, procs, child, wb, rs >>

\* mutant: the return address is taken from [base_ptr]
SavedRipAtBase(c, base_ptr) == c.stack[base_ptr]

\* ptrace::read at base_ptr + 8: the saved return address of the frame
SavedRip(c, base_ptr) == c.stack[base_ptr - 1]

\* ptrace::read at base_ptr: the saved frame pointer of the caller
SavedRbp(c, base_ptr) == c.stack[base_ptr]

RECURSIVE Walk(_, _, _, _)
\* The loop of Inferior::print_backtrace from instruction_ptr and base_ptr,
\* `frames` the lines printed so far.  The stack is a sequence of words: the
\* word at [base_ptr] is stack[base_ptr], the word at [base_ptr + 8] is
\* stack[base_ptr - 1].  The result is "ok" (main was printed), "err" (a
\* ptrace::read failed: base_ptr is the null frame pointer that _start
\* sets), "panic" (an unwrap of a None line or function) or "wild" (a read
\* through a base_ptr that is no frame of the stack: the words it returns
\* are whatever lies there).
Walk(c, instruction_ptr, base_ptr, frames) ==
    IF \/ get_line_from_addr(instruction_ptr) = NoLine
       \/ get_function_from_addr(instruction_ptr) = NoFunc
    THEN [res |-> "panic", frames |-> frames]
    ELSE LET printed == Append(frames,
                               << get_function_from_addr(instruction_ptr),
                                  get_line_from_addr(instruction_ptr) >>)
         IN  IF get_function_from_addr(instruction_ptr) = "main"
             THEN [res |-> "ok", frames |-> printed]
             ELSE IF base_ptr = 0
             THEN [res |-> "err", frames |-> printed]
             ELSE IF base_ptr \notin 2..Len(c.stack) \/ Len(printed) >= StackMax
             THEN [res |-> "wild", frames |-> printed]
             ELSE Walk(c, SavedRip(c, base_ptr), SavedRbp(c, base_ptr), printed)

\* Inferior::print_backtrace on a stopped child
print_backtrace(c) == Walk(c, c.rip, c.rbp, << >>)

\* DebuggerCommand::Backtrace
Backtrace ==
    /\ pc = "prompt"
    /\ cmd' = "backtrace"
    /\ wstatus' = NoStatus
    /\ over' = NoAddr
    /\ passed' = {}
    /\ current_line_number' = NoLine
    /\ unwaited' = {}
    /\ UNCHANGED << break_point, wb, rs >>
    /\ IF inferior = 0
       THEN /\ out' = Report("noinferior", NoAddr, 0)
            /\ UNCHANGED << pc, inferior, procs, child, mem, planted >>
       ELSE IF procs[inferior] # "stopped"
       THEN \* the getregs of print_backtrace returns the Err
            /\ out' = Report("error", NoAddr, 0)
            /\ UNCHANGED << pc, inferior, procs, child, mem, planted >>
       ELSE LET bt == print_backtrace(child)
            IN  \E res \in IF bt.res = "wild" THEN {"err", "panic"} ELSE {bt.res} :
                  IF res = "panic"
                  THEN Panic("backtrace")
                  ELSE /\ out' = [Report(IF res = "ok" THEN "frames" ELSE "error",
                                         child.rip, Len(bt.frames))
                                    EXCEPT !.frames = bt.frames]
                       /\ UNCHANGED << pc, inferior, procs, child, mem, planted >>

\* the names the user may give to print
VarNames == {"i", "nosuch"}

\* DwarfData::get_variable_by_name(rip, name): the int i of main, at
\* DW_OP_fbreg -20, is in scope at the addresses of main
get_variable_by_name(rip, name) ==
    IF name = "i" /\ get_function_from_addr(rip) = "main"
    THEN [found |-> TRUE, size |-> 4,
          location |-> [tag |-> "FramePointerOffset", a |-> 0, offset |-> -20]]
    ELSE [found |-> FALSE, size |-> 0,
          location |-> [tag |-> "Address", a |-> 0, offset |-> 0]]

\* the data of the child that a ptrace::read can reach, address |-> word:
\* the slot of i holds the loop counter once main has set its frame
\* pointer; nothing of it is mapped while rbp is the null frame pointer of
\* _start
TargetData(c) ==
    IF c.rbp = 0 THEN [a \in {} |-> U64(0)]
    ELSE [a \in {c.rbp + 16 - 20} |-> U64(c.cnt)]

\* the address the Print handler reads: *a for Location::Address(a),
\* rbp + 16 + offset for Location::FramePointerOffset(offset)
VarAddr(location, rbp) ==
    IF location.tag = "Address" THEN location.a ELSE rbp + 16 + location.offset

\* 0xff, 0xffff, 0xffff_ffff as u64
SizeMask(size) == [j \in 1..WORD_SIZE |-> IF j <= size THEN 255 ELSE 0]

\* mutant: the word is printed whole whatever the size
MaskedNone(value, size) == value

\* the truncation of the Print handler to the variable's size
Masked(value, size) ==
    IF size \in {1, 2, 4} THEN WAnd(value, SizeMask(size)) ELSE value

\* The Print handler after getregs, on the variable record var that
\* get_variable_by_name returned and the words `data` that ptrace::read can
\* reach: what is printed, whether ptrace::read was called and on which
\* address.
print_var(var, rbp, data) ==
    IF ~var.found
    THEN [kind |-> "notfound", read |-> FALSE, addr |-> NoAddr, value |-> U64(0)]
    ELSE LET addr == VarAddr(var.location, rbp)
         IN  IF addr \in DOMAIN data
             THEN [kind |-> "value", read |-> TRUE, addr |-> addr,
                   value |-> Masked(data[addr], var.size)]
             ELSE [kind |-> "error", read |-> TRUE, addr |-> addr, value |-> U64(0)]

\* DebuggerCommand::Print
PrintVar(var_name) ==
    /\ pc = "prompt"
    /\ cmd' = "print"
    /\ wstatus' = NoStatus
    /\ over' = NoAddr
    /\ passed' = {}
    /\ current_line_number' = NoLine
    /\ unwaited' = {}
    /\ UNCHANGED << break_point, wb, rs >>
    /\ IF inferior = 0
       THEN /\ out' = Report("noinferior", NoAddr, 0)
            /\ UNCHANGED << pc, inferior, procs, child, mem, planted >>
       ELSE IF procs[inferior] # "stopped"
       THEN \* ptrace::getregs(..).unwrap() on ESRCH
            Panic("getregs")
       ELSE LET var == get_variable_by_name(child.rip, var_name)
                r   == print_var(var, child.rbp, TargetData(child))
            IN  /\ out' = [Report(r.kind, NoAddr, 0) EXCEPT !.value = r.value]
                /\ UNCHANGED << pc, inferior, procs, child, mem, planted >>

\* DebuggerCommand::Quit
Quit ==
    /\ pc = "prompt"
    /\ cmd' = "quit"
    /\ pc' = "quit"
    /\ procs' = IF inferior # 0 THEN Drop(kill(procs, inferior), inferior) ELSE procs
    /\ inferior' = 0
    /\ out' = IF inferior # 0 THEN Report("killing", NoAddr, 0) ELSE NoOut
    /\ wstatus' = NoStatus
    /\ over' = NoAddr
    /\ passed' = {}
    /\ current_line_number' = NoLine
    /\ Gone
    /\ unwaited' = {}
    /\ UNCHANGED << break_point, wb, rs >>

\* A SIGKILL sent from outside the session ends the stopped child while
\* the controller waits at the prompt.
KilledOutside ==
    /\ pc = "prompt"
    /\ inferior # 0
    /\ procs[inferior] = "stopped"
    /\ procs' = [procs EXCEPT ![inferior] = "zombie"]
    /\ cmd' = "sigkill"
    /\ out' = NoOut
    /\ wstatus' = NoStatus
    /\ over' = NoAddr
    /\ passed' = {}
    /\ current_line_number' = NoLine
    /\ unwaited' = {}
    /\ Gone
    /\ UNCHANGED << pc, inferior, break_point, wb, rs >>

Next ==
    \/ \E crash \in BOOLEAN, ready \in SUBSET (DOMAIN break_point), spawn \in SpawnOutcomes :
          Run(crash, ready, spawn)
    \/ InferiorStep
    \/ RunWaitReturn
    \/ Continue
    \/ ContinueWaitReturn
    \/ NextCmd
    \/ NextIter
    \/ \E args \in BreakArgs : Break(args)
    \/ \E res \in NbResults : NaturalBreak(res)
    \/ Backtrace
    \/ \E var_name \in VarNames : PrintVar(var_name)
    \/ Quit
    \/ KilledOutside

Spec == Init /\ [][Next]_vars

(* ------------------------------------------------------------------ *)
(* write_byte on its own: a = write_byte(addr, val); write_byte(addr, a) *)
(* on a stopped child, from every address of the text and every byte.    *)
(* ------------------------------------------------------------------ *)

\* memories the harness starts from: the program's text, and text filled with
\* one byte (zeros, ones, traps)
WbMems ==
    { OrigMem, [a \in Text |-> 0], [a \in Text |-> 255], [a \in Text |-> TRAP] }

InitWB ==
    /\ pc = "prompt"
    /\ cmd = "none"
    /\ inferior = 0
    /\ break_point = [a \in {} |-> 0]
    /\ procs = [p \in Pids |-> "unborn"]
    /\ child = FreshChild(FALSE)
    /\ mem \in WbMems
    /\ current_line_number = NoLine
    /\ planted = {}
    /\ out = NoOut
    /\ wstatus = NoStatus
    /\ over = NoAddr
    /\ passed = {}
    /\ unwaited = {}
    /\ rs = NoRs
    /\ \E addr \in Text, val \in Byte :
          wb = [phase |-> 0, addr |-> addr, val |-> val, ret |-> 0, mem0 |-> mem]

\* a = write_byte(addr, val)
WbWrite ==
    /\ wb.phase = 0
    /\ LET r == write_byte(mem, TRUE, wb.addr, wb.val)
       IN  /\ r.ok
           /\ mem' = r.mem
           /\ wb' = [wb EXCEPT !.phase = 1, !.ret = r.orig]
    /\ UNCHANGED << pc, cmd, inferior, break_point, procs, child, current_line_number,
                    planted, out, wstatus, over, passed, unwaited, rs >>

\* write_byte(addr, a)
WbRestore ==
    /\ wb.phase = 1
    /\ LET r == write_byte(mem, TRUE, wb.addr, wb.ret)
       IN  /\ r.ok
           /\ mem' = r.mem
           /\ wb' = [wb EXCEPT !.phase = 2]
    /\ UNCHANGED << pc, cmd, inferior, break_point, procs, child, current_line_number,
                    planted, out, wstatus, over, passed, unwaited, rs >>

NextWB == WbWrite \/ WbRestore

SpecWB == InitWB /\ [][NextWB]_vars

(* ------------------------------------------------------------------ *)
(* Harness for the Print handler: one print of a variable record on a   *)
(* data segment, the inputs drawn from small sets.                       *)
(* ------------------------------------------------------------------ *)

\* first and last address of the data the harness maps
PvLo == 32

PvHi == 55

\* the data bytes the harness starts from: a pattern with no zero byte, and
\* all ones
PvBytes ==
    { [a \in PvLo..PvHi |-> ((a * 7) % 255) + 1],
      [a \in PvLo..PvHi |-> 255] }

\* ptrace::read on the harness's data: the word at every address whose
\* eight bytes are mapped
PvData(bytes) ==
    [a \in PvLo..(PvHi - WORD_SIZE + 1) |-> [j \in 1..WORD_SIZE |-> bytes[a + j - 1]]]

\* the variable records DwarfData may return, and None
PvVars ==
    { [found |-> TRUE, size |-> sz,
       location |-> [tag |-> "FramePointerOffset", a |-> 0, offset |-> k]] :
          sz \in {1, 2, 3, 4, 8}, k \in {-20, -8, 0, 8} }
    \cup
    { [found |-> TRUE, size |-> sz,
       location |-> [tag |-> "Address", a |-> a, offset |-> 0]] :
          sz \in {1, 2, 3, 4, 8}, a \in {8, 32, 37, 52} }
    \cup
    { [found |-> FALSE, size |-> 0,
       location |-> [tag |-> "Address", a |-> 0, offset |-> 0]] }

\* the frame pointers getregs may return
PvRbps == {0, 16, 24}

InitPV ==
    /\ pc = "prompt"
    /\ cmd = "none"
    /\ inferior = 0
    /\ break_point = [a \in {} |-> 0]
    /\ procs = [p \in Pids |-> "unborn"]
    /\ child = FreshChild(FALSE)
    /\ mem = OrigMem
    /\ current_line_number = NoLine
    /\ planted = {}
    /\ out = NoOut
    /\ wstatus = NoStatus
    /\ over = NoAddr
    /\ passed = {}
    /\ unwaited = {}
    /\ rs = NoRs
    /\ \E var \in PvVars, rbp \in PvRbps, bytes \in PvBytes :
          wb = [phase |-> 0, var |-> var, rbp |-> rbp, bytes |-> bytes,
                res |-> print_var([var EXCEPT !.found = FALSE], rbp, PvData(bytes))]

\* print of the variable
PvPrint ==
    /\ wb.phase = 0
    /\ wb' = [wb EXCEPT !.phase = 1,
                        !.res = print_var(wb.var, wb.rbp, PvData(wb.bytes))]
    /\ UNCHANGED << pc, cmd, inferior, break_point, procs, child, mem,
                    current_line_number, planted, out, wstatus, over, passed,
                    unwaited, rs >>

NextPV == PvPrint

SpecPV == InitPV /\ [][NextPV]_vars

(* ------------------------------------------------------------------ *)
(* The resolver (src/src/llm.rs).  A text is the sequence of its         *)
(* characters, each a string; the character U+7B2C that opens the        *)
(* Chinese line token is written "DI", the U+884C that closes it "HANG", *)
(* U+4E00 is written "YI".                                               *)
(* ------------------------------------------------------------------ *)

\* calls of parse_with_fallback one caller makes
MaxCalls == 2

UpperCase == << "A", "B", "C", "D", "E", "F", "I", "L", "M", "N", "X" >>

LowerCase == << "a", "b", "c", "d", "e", "f", "i", "l", "m", "n", "x" >>

\* char::to_lowercase
Lower(ch) ==
    IF \E i \in DOMAIN UpperCase : UpperCase[i] = ch
    THEN LowerCase[CHOOSE i \in DOMAIN UpperCase : UpperCase[i] = ch]
    ELSE ch

\* str::to_lowercase
to_lowercase(text) == [i \in 1..Len(text) |-> Lower(text[i])]

\* the value of a character as a digit in base 16
DigitVal ==
    "0" :> 0 @@ "1" :> 1 @@ "2" :> 2 @@ "3" :> 3 @@ "4" :> 4 @@ "5" :> 5 @@
    "6" :> 6 @@ "7" :> 7 @@ "8" :> 8 @@ "9" :> 9 @@ "a" :> 10 @@ "b" :> 11 @@
    "c" :> 12 @@ "d" :> 13 @@ "e" :> 14 @@ "f" :> 15

\* char::is_ascii_digit
AsciiDigits == {"0", "1", "2", "3", "4", "5", "6", "7", "8", "9"}

\* char::is_ascii_hexdigit on a lower-cased text
AsciiHexDigits == AsciiDigits \cup {"a", "b", "c", "d", "e", "f"}

\* str::find: the index of the first occurrence of pat in text, 0 for None
Find(text, pat) ==
    LET at == { i \in 1..(Len(text) - Len(pat) + 1) :
                  SubSeq(text, i, i + Len(pat) - 1) = pat }
    IN  IF at = {} THEN 0 ELSE CHOOSE i \in at : \A j \in at : i <= j

\* &text[n..]: text without its first n characters
Skip(text, n) == SubSeq(text, n + 1, Len(text))

\* chars().take_while(..).count(): the length of the longest prefix of text
\* whose characters are all in set
TakeWhile(text, set) ==
    CHOOSE n \in 0..Len(text) :
        /\ \A i \in 1..n : text[i] \in set
        /\ n = Len(text) \/ text[n + 1] \notin set

\* str::trim_start
trim_start(text) == Skip(text, TakeWhile(text, {" "}))

RECURSIVE FromStrRadix(_, _)
\* usize::from_str_radix(digits, radix), and str::parse::<usize> for radix 10
FromStrRadix(digits, radix) ==
    IF digits = << >> THEN 0
    ELSE radix * FromStrRadix(SubSeq(digits, 1, Len(digits) - 1), radix)
         + DigitVal[digits[Len(digits)]]

\* BreakpointSpec::Line { file: None, line }
SpecLine(line) == [tag |-> "Line", line |-> line, name |-> "", addr |-> 0]

\* parse_chinese_line
parse_chinese_line(text) ==
    LET start_idx == Find(text, << "DI" >>)
    IN  IF start_idx = 0 THEN NoSpec
        ELSE LET after        == trim_start(Skip(text, start_idx))
                 n            == TakeWhile(after, AsciiDigits)
                 digits       == SubSeq(after, 1, n)
                 after_digits == trim_start(Skip(after, n))
             IN  IF n = 0 THEN NoSpec
                 ELSE IF \/ (after_digits # << >> /\ after_digits[1] = "HANG")
                         \/ after_digits = << >>
                         \/ ~(after_digits # << >> /\ after_digits[1] \in AsciiDigits)
                 THEN SpecLine(FromStrRadix(digits, 10))
                 ELSE NoSpec

\* parse_english_line
parse_english_line(text) ==
    LET start_idx == Find(text, << "l", "i", "n", "e" >>)
    IN  IF start_idx = 0 THEN NoSpec
        ELSE LET after == trim_start(Skip(text, start_idx + 3))
                 n     == TakeWhile(after, AsciiDigits)
             IN  IF n = 0 THEN NoSpec
                 ELSE SpecLine(FromStrRadix(SubSeq(after, 1, n), 10))

\* parse_address_pattern
parse_address_pattern(text) ==
    LET start_idx == Find(text, << "0", "x" >>)
    IN  IF start_idx = 0 THEN NoSpec
        ELSE LET hex_part == Skip(text, start_idx + 1)
                 n        == TakeWhile(hex_part, AsciiHexDigits)
             IN  IF n = 0 THEN NoSpec
                 ELSE [tag |-> "Address", line |-> 0, name |-> "",
                       addr |-> FromStrRadix(SubSeq(hex_part, 1, n), 16)]

\* debug_data.files() and their functions, in order: the name and its
\* characters
Functions ==
    << [name |-> "main", chars |-> << "m", "a", "i", "n" >>],
       [name |-> "f",    chars |-> << "f" >>] >>

\* the loop of try_simple_parse over the functions: the first whose
\* lower-cased name the text contains
MatchFunction(text) ==
    LET hits == { i \in DOMAIN Functions :
                    Find(text, to_lowercase(Functions[i].chars)) # 0 }
    IN  IF hits = {} THEN NoSpec
        ELSE [tag |-> "Function", line |-> 0, addr |-> 0,
              name |-> Functions[CHOOSE i \in hits : \A j \in hits : i <= j].name]

\* try_simple_parse
try_simple_parse(text) ==
    LET text_lower == to_lowercase(text)
    IN  IF parse_chinese_line(text_lower) # NoSpec THEN parse_chinese_line(text_lower)
        ELSE IF parse_english_line(text_lower) # NoSpec THEN parse_english_line(text_lower)
        ELSE IF parse_address_pattern(text_lower) # NoSpec
        THEN parse_address_pattern(text_lower)
        ELSE MatchFunction(text_lower)

\* the texts given to nb
Texts ==
    { << "DI", "1", "0", "HANG" >>,
      << "DI", " ", "1", "0", " ", "HANG" >>,
      << "DI", "5" >>,
      << "DI", "YI", "DI", "5", "HANG" >>,
      << "L", "i", "n", "e", " ", "4" >>,
      << "0", "X", "1", "7" >>,
      << "i", "n", " ", "M", "a", "i", "n" >>,
      << "?" >> }

\* what parse_natural_breakpoint returns: the Err of load_config when no
\* config file exists; else an Err of the request or of the decoding, or the
\* spec decoded from the answer
RemoteResults(config) ==
    IF ~config THEN { [kind |-> "Err", spec |-> NoSpec] }
    ELSE { [kind |-> "Err", spec |-> NoSpec],
           [kind |-> "Ok", spec |-> SpecLine(5)],
           [kind |-> "Ok", spec |-> [tag |-> "Function", line |-> 0, addr |-> 0,
                                    name |-> "f"]] }

\* mutant: the lock is taken whoever holds it
CanLockAlways(lock) == TRUE

\* Mutex::lock returns when no caller holds the mutex
CanLock(lock) == lock = 0

\* mutant: the insert stores nothing
CacheInsertNone(map, key, value) == map

\* Cache::insert
CacheInsert(map, key, value) ==
    [x \in (DOMAIN map) \cup {key} |-> IF x = key THEN value ELSE map[x]]

\* what the resolver leaves alone
RsFrame ==
    UNCHANGED << pc, cmd, inferior, break_point, procs, child, mem,
                 current_line_number, planted, out, wstatus, over, passed,
                 unwaited, wb >>

\* a call of parse_with_fallback(natural_text, ..) by caller t
RsCall(t, natural_text) ==
    /\ rs.th[t].pc \in {"idle", "done"}
    /\ rs.th[t].calls < MaxCalls
    /\ rs' = [rs EXCEPT !.th[t] =
                 [NoCall("get_cache") EXCEPT !.text = natural_text,
                                             !.calls = rs.th[t].calls + 1,
                                             !.ptext = rs.th[t].text,
                                             !.pres = rs.th[t].res]]
    /\ RsFrame

\* get_cache: CACHE_INIT.call_once, then the dereference of CACHE_PTR.  A
\* caller that finds the Once running blocks until it is done.
GetCache(t) ==
    /\ rs.th[t].pc = "get_cache"
    /\ \/ /\ rs.once = "new"
          /\ rs' = [rs EXCEPT !.once = "running", !.th[t].pc = "init"]
       \/ /\ rs.once = "done"
          /\ rs' = [rs EXCEPT !.deref = rs.ptr, !.th[t].pc = "lock_lookup"]
    /\ RsFrame

\* the closure of call_once: the cache is boxed and CACHE_PTR set
CacheInit(t) ==
    /\ rs.th[t].pc = "init"
    /\ rs' = [rs EXCEPT !.inits = @ + 1, !.ptr = "cache", !.once = "done",
                        !.deref = "cache", !.th[t].pc = "lock_lookup"]
    /\ RsFrame

\* cache.lock() of the lookup: the guard is held and c.get starts
LockLookup(t) ==
    /\ rs.th[t].pc = "lock_lookup"
    /\ CanLock(rs.lock)
    /\ rs' = [rs EXCEPT !.lock = t, !.acc = @ \cup {t}, !.th[t].pc = "lookup"]
    /\ RsFrame

\* c.get(natural_text) returns and the guard is dropped: on a hit the
\* cached spec is returned
Lookup(t) ==
    /\ rs.th[t].pc = "lookup"
    /\ LET text == rs.th[t].text
       IN  IF text \in DOMAIN rs.map
           THEN rs' = [rs EXCEPT !.lock = 0, !.acc = @ \ {t},
                                 !.th[t].hit = TRUE,
                                 !.th[t].res = [kind |-> "Ok", spec |-> rs.map[text]],
                                 !.th[t].pc = "done"]
           ELSE rs' = [rs EXCEPT !.lock = 0, !.acc = @ \ {t},
                                 !.th[t].pc = "offline"]
    /\ RsFrame

\* try_simple_parse(natural_text, debug_data)
Offline(t) ==
    /\ rs.th[t].pc = "offline"
    /\ LET spec == try_simple_parse(rs.th[t].text)
       IN  rs' = [rs EXCEPT !.th[t].offline = TRUE,
                            !.th[t].spec = spec,
                            !.th[t].pc = IF spec # NoSpec THEN "lock_insert"
                                         ELSE "remote"]
    /\ RsFrame

\* parse_natural_breakpoint(natural_text, debug_data)?
Remote(t, r) ==
    /\ rs.th[t].pc = "remote"
    /\ rs' = IF r.kind = "Err"
             THEN [rs EXCEPT !.th[t].remote = TRUE, !.th[t].res = r,
                             !.th[t].pc = "done"]
             ELSE [rs EXCEPT !.th[t].remote = TRUE, !.th[t].spec = r.spec,
                             !.th[t].pc = "lock_insert"]
    /\ RsFrame

\* cache.lock() of the insert: the guard is held and c.insert starts
LockInsert(t) ==
    /\ rs.th[t].pc = "lock_insert"
    /\ CanLock(rs.lock)
    /\ rs' = [rs EXCEPT !.lock = t, !.acc = @ \cup {t}, !.th[t].pc = "insert"]
    /\ RsFrame

\* c.insert(natural_text.to_string(), spec.clone()) returns, the guard is
\* dropped and Ok(spec) returned
InsertDone(t) ==
    /\ rs.th[t].pc = "insert"
    /\ rs' = [rs EXCEPT !.map = CacheInsert(@, rs.th[t].text, rs.th[t].spec),
                        !.lock = 0, !.acc = @ \ {t},
                        !.th[t].res = [kind |-> "Ok", spec |-> rs.th[t].spec],
                        !.th[t].pc = "done"]
    /\ RsFrame

NextRS ==
    \E t \in Callers :
        \/ \E natural_text \in rs.texts : RsCall(t, natural_text)
        \/ GetCache(t)
        \/ CacheInit(t)
        \/ LockLookup(t)
        \/ Lookup(t)
        \/ Offline(t)
        \/ \E r \in RemoteResults(rs.config) : Remote(t, r)
        \/ LockInsert(t)
        \/ InsertDone(t)

\* the resolver with the callers in `on`, which pass the texts in `texts`;
\* the rest of the program at rest
InitRsWith(on, texts) ==
    /\ pc = "prompt"
    /\ cmd = "none"
    /\ inferior = 0
    /\ break_point = [a \in {} |-> 0]
    /\ procs = [p \in Pids |-> "unborn"]
    /\ child = FreshChild(FALSE)
    /\ mem = OrigMem
    /\ current_line_number = NoLine
    /\ planted = {}
    /\ out = NoOut
    /\ wstatus = NoStatus
    /\ over = NoAddr
    /\ passed = {}
    /\ unwaited = {}
    /\ wb = NoWb
    /\ \E config \in BOOLEAN :
          rs = [NoRs EXCEPT !.config = config, !.texts = texts,
                            !.th = [t \in Callers |->
                                      NoCall(IF t \in on THEN "idle" ELSE "off")]]

\* one caller, as in the program: the controller's thread
InitRS == InitRsWith({1}, Texts)

SpecRS == InitRS /\ [][NextRS]_vars

\* two concurrent callers, with a text the offline matcher resolves and one
\* it does not
InitRS2 == InitRsWith(Callers, { << "DI", "5" >>, << "?" >> })

SpecRS2 == InitRS2 /\ [][NextRS]_vars

(* ------------------------------------------------------------------ *)
(* Properties.                                                           *)
(* ------------------------------------------------------------------ *)

\* C4: write_byte(addr, val) returns the byte that was at addr before the
\* call, leaves val at addr, and changes no other byte (so none of the
\* other seven of the aligned word), at every offset 0..7 and for every val.
WriteByteResult ==
    wb.phase = 1 =>
        /\ wb.ret = wb.mem0[wb.addr]
        /\ mem[wb.addr] = wb.val
        /\ \A a \in Text \ {wb.addr} : mem[a] = wb.mem0[a]

\* C4 witness: a trap written at the last byte of a word of the program text
WriteByteResultWitness ==
    /\ wb.phase = 1
    /\ wb.addr % WORD_SIZE = 7
    /\ wb.val = TRAP
    /\ wb.mem0 = OrigMem
    /\ mem[wb.addr] # wb.mem0[wb.addr]

\* C5: a = write_byte(addr, val); write_byte(addr, a) leaves the aligned word
\* (and all of memory) as it was.
WriteByteRoundTrip == wb.phase = 2 => mem = wb.mem0

\* C5 witness: the round trip done at an unaligned address with a new byte
WriteByteRoundTripWitness ==
    /\ wb.phase = 2
    /\ wb.addr % WORD_SIZE = 3
    /\ wb.val # wb.mem0[wb.addr]
    /\ wb.ret = wb.mem0[wb.addr]

(* ------------------------------------------------------------------ *)
(* Properties of the controller (specification Spec).                    *)
(* ------------------------------------------------------------------ *)

\* the kernel states of a child that was spawned and is not yet reaped
Live == {"running", "stopped", "zombie"}

\* C1: trap coherence.  Whenever the controller is at the prompt with a
\* live inferior, the byte at every address where a breakpoint was planted
\* in that inferior is 0xCC, also after a step-over whose single-step
\* returned a stop other than SIGTRAP.
TrapCoherence ==
    pc = "prompt" /\ inferior # 0 => \A a \in planted : mem[a] = TRAP

\* C2: orig_byte fidelity.  For every breakpoint planted in the live
\* inferior the table's orig_byte is the byte of the program text at that
\* address and never 0xCC, also after break or nb on an address that is
\* already planted.
OrigByteFidelity ==
    pc = "prompt" /\ inferior # 0 =>
        \A a \in planted : break_point[a] = OrigMem[a] /\ break_point[a] # TRAP

\* C3: at most one inferior.  Every child that is spawned and not yet
\* reaped is the one in the controller's inferior slot, so there is never
\* more than one; a run issued with an inferior present has killed and
\* reaped the old child when the new one exists.
AtMostOneInferior ==
    \A p \in Pids : procs[p] \in Live => inferior = p

AtMostOneInferiorWitness ==
    /\ pc = "run_wait" /\ out.kind = "killing"
    /\ procs[1] \in Reaped /\ procs[2] = "running" /\ inferior = 2

\* C6 as stated: whenever next returns with the inferior alive and a stop
\* reported, the reported rip has a line, and that line differs from the
\* line next started on.
NextAdvancesLineAlways ==
    pc = "prompt" /\ cmd = "next" /\ inferior # 0 /\ out.kind = "stopped" =>
        out.line # NoLine /\ out.line # current_line_number

\* C6 amended: whenever next returns with the inferior alive and a stop
\* reported by its plain single-step, the reported rip has a line that
\* differs from the line next started on; the stop that the step-over's
\* single-step returns with a signal other than SIGTRAP is reported where
\* it is.
NextAdvancesLine ==
    pc = "prompt" /\ cmd = "next" /\ inferior # 0 /\ out.kind = "stopped" =>
        \/ out.from = "stepover" /\ wstatus.kind = "Stopped" /\ wstatus.sig # "SIGTRAP"
        \/ out.from = "step" /\ out.line # NoLine /\ out.line # current_line_number

NextAdvancesLineWitness ==
    /\ pc = "prompt" /\ cmd = "next" /\ inferior # 0
    /\ out.kind = "stopped" /\ out.from = "step"
    /\ current_line_number # NoLine /\ out.line # current_line_number
    /\ child.stack # << >>

\* C7: breakpoint re-arm.  When continue was issued with the child stopped
\* by the trap planted at A, the byte at A is 0xCC at the child's next
\* stop.
BreakpointRearmed ==
    pc = "prompt" /\ cmd = "continue" /\ inferior # 0 /\ over \in planted =>
        mem[over] = TRAP

\* C8: exit leads to Idle.  Whenever the wait of run, continue (its
\* step-over single-step included) or next returned Exited or Signaled,
\* at the next prompt the outcome is reported, the inferior slot is empty
\* and no child is left.
ExitLeadsToIdle ==
    pc = "prompt" /\ wstatus.kind \in Dead =>
        /\ inferior = 0
        /\ out.kind = (IF wstatus.kind = "Exited" THEN "exited" ELSE "signaled")
        /\ \A p \in Pids : procs[p] \notin Live

ExitLeadsToIdleWitness ==
    /\ pc = "prompt" /\ cmd = "continue" /\ wstatus.kind = "Exited"
    /\ inferior = 0 /\ out.kind = "exited" /\ procs[1] \in Reaped

\* C9 as stated: a run whose spawn succeeded and whose first wait
\* delivered SIGTRAP (the child not being killed from outside) leaves a
\* live, paused inferior at the next prompt.
RunLeavesStopped ==
    pc = "prompt" /\ cmd = "run" /\ wstatus.kind \in {"Stopped", "Exited"} =>
        inferior # 0 /\ procs[inferior] = "stopped"

\* C9 amended: run resumes the child after the post-exec trap, so at the
\* next prompt either the child has stopped again (a planted trap or a
\* signal) and the controller is Stopped with that stop reported, or the
\* child has ended and the controller is Idle with the end reported, or
\* the wait of the resumption failed, the error is printed and the dead
\* child stays in the inferior slot.
RunOutcome ==
    pc = "prompt" /\ cmd = "run" /\ wstatus.kind # "NoTrap" =>
        \/ /\ inferior # 0 /\ procs[inferior] = "stopped"
           /\ wstatus.kind = "Stopped" /\ wstatus.rip = child.rip
           /\ out.kind = "stopped" /\ out.rip = child.rip
        \/ /\ inferior = 0 /\ \A p \in Pids : procs[p] \notin Live
           /\ wstatus.kind \in Dead /\ out.kind \in {"exited", "signaled"}
        \/ /\ inferior # 0 /\ procs[inferior] = "zombie"
           /\ wstatus.kind = "Err" /\ out.kind = "error"

RunOutcomeWitness ==
    /\ pc = "prompt" /\ cmd = "run" /\ inferior # 0
    /\ procs[inferior] = "stopped" /\ out.kind = "stopped"
    /\ child.hit \in planted /\ child.rip = child.hit + 1

\* C10: a breakpoint set while Idle is hit by the run that follows.  In
\* the session's first run every table entry was set while Idle; when that
\* run returns, the child has not run through the instruction at any
\* table address.
BreakBeforeRunIsHit ==
    pc = "prompt" /\ cmd = "run" /\ procs[2] = "unborn"
        /\ wstatus.kind \in {"Stopped", "Exited"} =>
            passed = {}

\* C11: plant on spawn.  After a spawn every table entry whose address is
\* mapped is planted in the new inferior: the byte at its address is 0xCC
\* and its orig_byte is the byte the fresh text held there.
PlantOnSpawn ==
    pc = "run_wait" =>
        \A a \in (DOMAIN break_point) \cap Text :
            mem[a] = TRAP /\ break_point[a] = OrigMem[a]

\* C12: no race on memory writes.  No command calls write_byte on a child
\* that no wait has yet shown to be stopped.
WritesOnlyWhenStopped == unwaited = {}

\* C13: next steps over calls.  A next issued on line 5 of main, whose
\* instruction calls f, reports its stop on line 6 of main and not at an
\* instruction of f.
NextStepsOverCalls ==
    pc = "prompt" /\ cmd = "next" /\ current_line_number = 5
        /\ out.kind = "stopped" /\ wstatus.sig = "SIGTRAP" =>
            out.func = "main" /\ out.line = 6

\* C14: no abort on inferior-interaction errors.  No failure of a trace
\* call (getregs, setregs, a memory read or write, step, continue, wait)
\* makes the controller panic.
NoAbortOnTraceError ==
    ~(pc = "panicked" /\ out.from \in {"getregs", "setregs", "write_byte"})

\* C15: spawn failure.  When the child cannot be spawned or its first wait
\* returns anything but the SIGTRAP stop, run reports the failed start and
\* the controller is at the prompt, Idle, with no child left.
SpawnFailureStaysIdle ==
    cmd = "run" /\ (out.from = "spawn" \/ wstatus.kind = "NoTrap") =>
        /\ pc = "prompt" /\ out.kind = "nostart"
        /\ inferior = 0 /\ \A p \in Pids : procs[p] \notin Live

\* C16: a wait error leads to Idle.  When the wait of a continue or of a
\* single-step issued by run, continue or next returned an error, the
\* inferior slot is empty at the next prompt.
WaitErrorLeadsToIdle ==
    pc = "prompt" /\ wstatus.kind = "Err" => inferior = 0

\* C17: unresolvable breakpoint.  A break or nb whose argument resolves to
\* no address prints the inability message and changes neither the table,
\* nor the child's memory and registers, nor the controller's state.
UnresolvedBreakChangesNothing ==
    [][ /\ \A args \in BreakArgs :
             ResolveBreak(args) = NoAddr /\ Break(args) =>
                 /\ out'.kind = "unable"
                 /\ UNCHANGED << break_point, mem, child, planted, inferior, procs, pc >>
        /\ \A res \in NbResults :
             ResolveSpec(res) = NoAddr /\ NaturalBreak(res) =>
                 /\ out'.kind = "unable"
                 /\ UNCHANGED << break_point, mem, child, planted, inferior, procs, pc >>
      ]_vars

\* C17 witness: the inability message printed with a stopped inferior that
\* has a planted breakpoint
UnresolvedBreakWitness ==
    /\ pc = "prompt" /\ cmd \in {"break", "nb"} /\ out.kind = "unable"
    /\ inferior # 0 /\ procs[inferior] = "stopped" /\ planted # {}

\* C18 as stated: a break that resolves to A with the inferior stopped
\* writes 0xCC at A in the inferior and records the byte that was there,
\* the child's registers unchanged.
BreakPlantsWhenStopped ==
    [][ cmd' = "break" /\ out'.kind \in {"setbp", "error"}
            /\ inferior # 0 /\ procs[inferior] = "stopped" =>
                /\ out'.rip \in Text
                /\ mem'[out'.rip] = TRAP
                /\ break_point'[out'.rip] = mem[out'.rip]
                /\ UNCHANGED << pc, inferior, procs, child >>
      ]_vars

\* C18 amended: a break or nb that resolves to A enters A in the table and
\* leaves the other entries, the inferior slot, every process and the
\* child's registers as they were.  With no inferior the entry is unplanted
\* (orig_byte 0) and no memory is touched.  With an inferior whose write at A
\* succeeds (the child is stopped and A is mapped) the byte at A becomes
\* 0xCC, no other byte changes and orig_byte is the byte that was at A.
\* With an inferior whose write fails the error is printed, memory is
\* unchanged and the entry stays with orig_byte 0.
BreakPlacement ==
    [][ cmd' \in {"break", "nb"} /\ out'.kind \in {"setbp", "error"} =>
            LET A == out'.rip
            IN  /\ UNCHANGED << pc, inferior, procs, child >>
                /\ DOMAIN break_point' = (DOMAIN break_point) \cup {A}
                /\ \A a \in DOMAIN break_point :
                       a # A => break_point'[a] = break_point[a]
                /\ IF inferior = 0
                   THEN /\ break_point'[A] = 0 /\ mem' = mem
                        /\ out'.kind = "setbp"
                   ELSE IF procs[inferior] = "stopped" /\ A \in Text
                   THEN /\ mem' = [mem EXCEPT ![A] = TRAP]
                        /\ break_point'[A] = mem[A]
                        /\ out'.kind = "setbp"
                   ELSE /\ break_point'[A] = 0 /\ mem' = mem
                        /\ out'.kind = "error"
      ]_vars

\* C18 witness: a break planted in the stopped inferior, the text's byte
\* recorded
BreakPlacementWitness ==
    /\ pc = "prompt" /\ cmd = "break" /\ out.kind = "setbp"
    /\ inferior # 0 /\ procs[inferior] = "stopped"
    /\ out.rip \in planted /\ mem[out.rip] = TRAP
    /\ break_point[out.rip] = OrigMem[out.rip]

\* C19: stable breakpoint ordinal.  No two distinct addresses are echoed
\* with the same index: of two break or nb commands in a row that echo
\* different addresses, the second echoes another index than the first.
DistinctAddressesDistinctIndex ==
    [][ ( /\ cmd \in {"break", "nb"} /\ out.kind = "setbp"
          /\ cmd' \in {"break", "nb"} /\ out'.kind = "setbp"
          /\ out'.rip # out.rip )
            => out'.index # out.index
      ]_vars

\* C20: backtrace and print are read-only.  Executed with the inferior
\* stopped they leave its memory, its registers, the table, the inferior
\* slot and the prompt as they were; executed with no inferior they, and
\* continue and next too, only print a diagnostic.
ReadOnlyCommands ==
    [][ /\ ( cmd' \in {"backtrace", "print"}
              /\ inferior # 0 /\ procs[inferior] = "stopped" )
            => UNCHANGED << mem, child, break_point, planted, inferior, procs, pc >>
        /\ ( cmd' \in {"backtrace", "print", "continue", "next"} /\ inferior = 0 )
            => /\ out'.kind = "noinferior"
               /\ UNCHANGED << mem, child, break_point, planted, inferior, procs, pc >>
      ]_vars

\* the stack of c is that of completed prologues: return address and saved
\* frame pointer alternate, rbp points at the newest saved frame pointer and
\* every saved frame pointer points at the one below it
WellFramed(c) ==
    /\ Len(c.stack) >= 2
    /\ Len(c.stack) % 2 = 0
    /\ c.rbp = Len(c.stack)
    /\ \A i \in 1..Len(c.stack) : i % 2 = 0 => c.stack[i] = i - 2

\* rip and the return addresses of c, innermost first
CallSites(c) ==
    [k \in 1..(Len(c.stack) \div 2 + 1) |->
        IF k = 1 THEN c.rip ELSE c.stack[Len(c.stack) - 2 * k + 3]]

\* the chain of c reaches main through addresses that all have a line and a
\* function
ChainMapped(c) ==
    \E n \in DOMAIN CallSites(c) :
        /\ get_function_from_addr(CallSites(c)[n]) = "main"
        /\ \A k \in 1..n : /\ get_line_from_addr(CallSites(c)[k]) # NoLine
                            /\ get_function_from_addr(CallSites(c)[k]) # NoFunc

\* the frames of c from the innermost to the first frame of main
FramesToMain(c) ==
    LET sites == CallSites(c)
        n     == CHOOSE k \in DOMAIN sites :
                    /\ get_function_from_addr(sites[k]) = "main"
                    /\ \A j \in 1..(k - 1) : get_function_from_addr(sites[j]) # "main"
    IN  [k \in 1..n |-> << get_function_from_addr(sites[k]),
                           get_line_from_addr(sites[k]) >>]

PrintValue ==
    wb.phase = 1 =>
        LET var   == wb.var
            r     == wb.res
            addr  == IF var.location.tag = "Address" THEN var.location.a
                     ELSE wb.rbp + 16 + var.location.offset
            bytes == IF var.size \in {1, 2, 4} THEN var.size ELSE WORD_SIZE
        IN  IF ~var.found
            THEN r.kind = "notfound" /\ ~r.read
            ELSE /\ r.read /\ r.addr = addr
                 /\ (addr >= PvLo /\ addr + WORD_SIZE - 1 <= PvHi) =>
                       /\ r.kind = "value"
                       /\ r.value = [j \in 1..WORD_SIZE |->
                                       IF j <= bytes THEN wb.bytes[addr + j - 1] ELSE 0]

\* C22 witness: a 4-byte variable at a negative frame offset printed from a
\* word whose upper bytes are not zero
PrintValueWitness ==
    /\ wb.phase = 1 /\ wb.var.found /\ wb.var.size = 4
    /\ wb.var.location.tag = "FramePointerOffset" /\ wb.var.location.offset < 0
    /\ wb.res.kind = "value" /\ wb.res.addr = wb.rbp + 16 + wb.var.location.offset
    /\ wb.bytes[wb.res.addr + 4] # 0 /\ wb.res.value[5] = 0
    /\ wb.res.value[1] = wb.bytes[wb.res.addr]

\* C23: quit terminates the child.  Once the command loop has returned, by
\* quit or EOF or by the unwinding of a panic, the inferior slot is empty
\* and no spawned child is alive or unreaped.
NoChildAfterLoop ==
    pc \in {"quit", "panicked"} =>
        inferior = 0 /\ \A p \in Pids : procs[p] \notin Live

\* C23 witness: quit given with an inferior in the slot, its child reaped
NoChildAfterLoopWitness ==
    /\ pc = "quit" /\ cmd = "quit" /\ out.kind = "killing"
    /\ inferior = 0 /\ procs[1] \in Reaped /\ procs[2] = "unborn"

\* C24: resolver pipeline and cache.  A call that finds its text in the
\* cache returns the cached spec and runs neither the offline matcher nor
\* the remote call; a call that misses runs the offline matcher, and the
\* remote call only when the matcher yields nothing; a successful result is
\* in the cache under the exact text of the call, a failed call stores
\* nothing; a second resolve of a text right after a successful one returns
\* the same spec from the cache.
ResolverPipeline ==
    \A t \in Callers :
        LET c == rs.th[t]
        IN  /\ c.hit => ~c.offline /\ ~c.remote
            /\ c.remote => c.offline /\ try_simple_parse(c.text) = NoSpec
            /\ c.pc = "done" /\ ~c.hit => c.offline
            /\ c.pc = "done" /\ c.res.kind = "Ok" =>
                  c.text \in DOMAIN rs.map /\ rs.map[c.text] = c.res.spec
            /\ c.pc = "done" /\ c.res.kind = "Err" =>
                  c.remote /\ c.text \notin DOMAIN rs.map
            /\ c.pc = "done" /\ c.ptext = c.text /\ c.pres.kind = "Ok" =>
                  c.hit /\ c.res = c.pres

\* C24 witness: a text the offline matcher does not resolve, resolved by the
\* remote call and then, asked again, returned from the cache
ResolverPipelineWitness ==
    /\ rs.th[1].pc = "done" /\ rs.th[1].calls = 2 /\ rs.th[1].hit
    /\ rs.th[1].text = << "?" >> /\ rs.th[1].ptext = << "?" >>
    /\ rs.th[1].res = [kind |-> "Ok", spec |-> SpecLine(5)]
    /\ rs.map[<< "?" >>] = SpecLine(5)

\* the text holds, at some occurrence of the opening character, the Chinese
\* line token for line N: the opening character, the digits of N, and the
\* closing character or nothing, spaces allowed between them
HasChineseLineToken(text, N) ==
    \E i \in 1..Len(text) :
        /\ text[i] = "DI"
        /\ parse_chinese_line(Skip(text, i - 1)) = SpecLine(N)

\* C25: offline NL breakpoint.  With no resolver config, a call whose text
\* contains the Chinese line token for line N returns the by-line spec for
\* N with no file, and makes no remote call.
OfflineChineseLine ==
    \A t \in Callers :
        \A N \in 1..99 :
            ( /\ rs.th[t].pc = "done" /\ ~rs.config
              /\ HasChineseLineToken(rs.th[t].text, N) )
                => /\ rs.th[t].res = [kind |-> "Ok", spec |-> SpecLine(N)]
                   /\ ~rs.th[t].remote

\* C26: cache mutual exclusion.  With two concurrent callers the cache is
\* initialised exactly once, a caller past get_cache holds a reference to
\* that one cache, and a caller inside a lookup or an insert on the map holds
\* the mutex, so at most one caller is in the map at a time.
CacheMutualExclusion ==
    /\ rs.inits <= 1
    /\ Cardinality(rs.acc) <= 1
    /\ \A t \in Callers :
          /\ rs.th[t].pc \in {"lookup", "insert"} <=> t \in rs.acc
          /\ t \in rs.acc => rs.lock = t
          /\ rs.th[t].pc \in {"lock_lookup", "lookup", "offline", "remote",
                              "lock_insert", "insert", "done"}
                => rs.inits = 1 /\ rs.ptr = "cache" /\ rs.deref = "cache"

CacheMutualExclusionWitness ==
    /\ rs.inits = 1
    /\ rs.th[1].pc = "insert" /\ rs.lock = 1 /\ rs.acc = {1}
    /\ rs.th[2].pc = "lock_insert"
    /\ rs.th[1].text = rs.th[2].text

\* C27 as stated: at every prompt an inferior in the slot is stopped.
PromptInferiorStopped ==
    pc = "prompt" /\ inferior # 0 => procs[inferior] = "stopped"

\* C27, amended: a child runs only between a resumption and the wait paired
\* with it, while the controller is inside run or continue; at every prompt
\* the child in the inferior slot is stopped, or dead and not yet reaped,
\* never running; between the steps of next it is stopped.
SynchronousResumption ==
    /\ \A p \in Pids :
          procs[p] = "running" => p = inferior /\ pc \in {"run_wait", "cont_wait"}
    /\ pc = "prompt" /\ inferior # 0 => procs[inferior] \in {"stopped", "zombie"}
    /\ pc = "next_loop" => inferior # 0 /\ procs[inferior] = "stopped"

SynchronousResumptionWitness ==
    /\ pc = "prompt" /\ cmd = "continue"
    /\ over # NoAddr
    /\ inferior # 0 /\ procs[inferior] = "stopped"
    /\ wstatus.kind = "Stopped" /\ out.kind = "stopped"

\* C28: step-over-breakpoint order.  When continue resumes the child with
\* PTRACE_CONT, then if rip - 1 was in the breakpoint table the byte at
\* rip - 1 is 0xCC again (the trap is absent only between the restore and
\* the re-arm, both before the resumption), and if it was not in the table
\* neither memory nor the registers were modified.
StepOverOrder ==
    [][ (pc = "prompt" /\ cmd' = "continue" /\ pc' = "cont_wait") =>
            IF child.rip - 1 \in DOMAIN break_point
            THEN mem'[child.rip - 1] = TRAP
            ELSE mem' = mem /\ child' = child ]_vars

\* C29: next from a breakpoint checks the line after the over-step.  When a
\* turn of next's loop finds the child stopped by the trap planted at
\* rip - 1 and the single-step of the over-step ends with a trap stop at an
\* address whose line is mapped and differs from the starting line, next
\* reports the stop at that address and returns to the prompt.
NextChecksLineAfterOverStep ==
    [][ ( /\ pc = "next_loop"
          /\ child.rip - 1 \in planted /\ child.hit = child.rip - 1
          /\ wstatus'.kind = "Stopped" /\ wstatus'.sig = "SIGTRAP"
          /\ StopsHere(get_line_from_addr(wstatus'.rip), current_line_number) )
            => /\ pc' = "prompt"
               /\ out'.kind = "stopped" /\ out'.rip = wstatus'.rip ]_vars

\* C30: the rewind needs a trap.  Whenever continue, or a turn of next's
\* loop, finds rip - 1 in the breakpoint table, and so restores the byte, sets
\* rip to rip - 1 and replays the instruction there, the child's most recent
\* stop was caused by executing the trap planted at rip - 1.
RewindOnlyAfterTrap ==
    [][ ( /\ \/ pc = "prompt" /\ cmd' = "continue"
             \/ pc = "next_loop"
          /\ inferior # 0 /\ procs[inferior] = "stopped"
          /\ child.rip - 1 \in DOMAIN break_point )
            => child.rip - 1 \in planted /\ child.hit = child.rip - 1 ]_vars

(* ------------------------------------------------------------------ *)
(* next under fair scheduling: a session of break, run, continue and     *)
(* next on a child that nothing kills from outside, whose breakpoints    *)
(* are planted on the stopped child.                                     *)
(* ------------------------------------------------------------------ *)

\* the lines the user breaks on: the call of f, and the closing brace of
\* f, whose first instruction is the one-byte nop
LiveArgs ==
    { [form |-> "line", addr |-> 0, line |-> 5,  name |-> ""],
      [form |-> "line", addr |-> 0, line |-> 11, name |-> ""] }

NextLive ==
    \/ \E args \in LiveArgs : Break(args)
    \/ Run(FALSE, DOMAIN break_point, "ok")
    \/ InferiorStep
    \/ RunWaitReturn
    \/ Continue
    \/ ContinueWaitReturn
    \/ NextCmd
    \/ NextIter

\* a turn of next's loop whose single-step returned a stop: the kernel
\* ran the step and nothing killed the child
NextIterStopped == NextIter /\ wstatus'.kind = "Stopped"

\* the controller's thread runs, and so does a resumed child
SpecLive ==
    /\ Init
    /\ [][NextLive]_vars
    /\ WF_vars(NextIterStopped)
    /\ WF_vars(InferiorStep)
    /\ WF_vars(RunWaitReturn)
    /\ WF_vars(ContinueWaitReturn)

\* single-steps within which the program, from anywhere, has left its line
StepFuel == 10 * (LoopMax + 2)

RECURSIVE StepsOut(_, _, _)
\* the program, single-stepped from the registers c, exits or reaches an
\* instruction whose mapped line differs from line, within fuel steps
StepsOut(c, line, fuel) ==
    IF fuel = 0 \/ c.rip \notin InstrStarts THEN FALSE
    ELSE LET o == Exec(c)
         IN  CASE o.ev = "exit" -> TRUE
               [] o.ev = "segv" -> FALSE
               [] OTHER -> \/ StopsHere(get_line_from_addr(o.c.rip), line)
                           \/ StepsOut(o.c, line, fuel - 1)

\* the child's position in its program: the instruction under the trap
\* that stopped it, else the one at rip
Position(c) == IF c.hit = c.rip - 1 THEN [c EXCEPT !.rip = c.rip - 1] ELSE c

\* C31: next terminates.  Whenever next is in its loop and the child,
\* single-stepped from its position, would exit or reach an instruction
\* whose mapped line differs from the starting line, next returns to the
\* prompt.
NextTerminates ==
    (pc = "next_loop" /\ StepsOut(Position(child), current_line_number, StepFuel))
        ~> (pc # "next_loop")

\* C32: a kill needs an unreaped child.  No pid is sent a kill signal after
\* a wait has collected its exit status: not by run with an inferior
\* present, not by quit, not when the slot is emptied after an exit, not by
\* Drop.
KillOnlyUnreaped == \A p \in Pids : procs[p] # "rekilled"

====
